---- MODULE Spec2Model ----
(***************************************************************************)
(* The browser session manager (PlaywrightManager) and the tool handlers   *)
(* of mcp_playwright_tools.py as a state machine.  Every `await` on the    *)
(* automation engine is a suspension point: the code from one await to the *)
(* next is one atomic step of the task running the handler.                *)
(***************************************************************************)
EXTENDS Integers, Sequences, FiniteSets, TLC

\* ------------------------------------------------------------------ bounds
MaxCalls == 4
NumTasks == 2
MaxConstructions == 2
MaxOverlapping == 2

Tasks == 1..NumTasks

\* Python's None for a reference field.
None == 0

\* ------------------------------------------------------- the tool registry
Handlers ==
    { "browser_navigate", "browser_close", "browser_fill", "browser_find_by_xpath",
      "browser_go_back", "browser_reload", "browser_click", "browser_save_as_pdf",
      "browser_screenshot", "browser_scroll_to_top", "browser_scroll_to_bottom",
      "browser_scroll_to_element", "get_current_url", "get_element_html",
      "get_element_text", "get_page_content", "get_page_html", "get_page_title",
      "save_element_as_html", "save_page_as_html", "save_page_screenshot",
      "clear_field", "browser_press_key", "browser_scroll_one_step",
      "clear_browser_data", "get_cookies" }

Validates_ExceptFill(a) ==
    a \in { "browser_navigate", "browser_find_by_xpath",
            "browser_click", "browser_scroll_to_element", "get_element_html",
            "get_element_text", "save_element_as_html", "clear_field",
            "browser_press_key", "browser_scroll_one_step" }

\* Handlers that check their arguments before anything else.
Validates(a) ==
    a \in { "browser_navigate", "browser_fill", "browser_find_by_xpath",
            "browser_click", "browser_scroll_to_element", "get_element_html",
            "get_element_text", "save_element_as_html", "clear_field",
            "browser_press_key", "browser_scroll_one_step" }

\* The argument shapes a caller can pass: "valid", "empty" (an empty or
\* non-string selector/url/xpath/key, a non-integer step) and, for
\* browser_fill, "bad_text" (a valid selector with a non-string text).
Args(a) ==
    IF a = "browser_fill" THEN {"valid", "empty", "bad_text"}
    ELSE IF Validates(a) THEN {"valid", "empty"}
    ELSE {"valid"}

ValidationMsg(a, arg) ==
    CASE a = "browser_navigate" -> "Error: URL must be a non-empty string"
      [] a = "browser_fill" /\ arg = "bad_text" -> "Error: Text must be a string"
      [] a \in {"browser_fill", "browser_click", "browser_scroll_to_element"}
            -> "Error: Selector must be a non-empty string"
      [] a = "browser_press_key" -> "Error: Key must be a non-empty string"
      [] a = "browser_scroll_one_step" -> "Error: Step must be an integer"
      [] OTHER -> "Error: XPath must be a non-empty string"

\* Handlers that act on the element a selector/XPath argument names.
Targets(a, sel) ==
    \/ a \in { "browser_click", "browser_fill", "browser_scroll_to_element",
                "get_element_html", "get_element_text", "save_element_as_html",
                "clear_field" }
    \/ (a = "browser_screenshot" /\ sel)

\* Page calls that take a selector and act on the element it matches.
WaitsForElement == {"click", "fill"}

\* The page-capability calls a handler awaits after ensure_browser(), in
\* order.  sel: whether browser_screenshot was given a selector.
Script(a, sel) ==
    CASE a = "browser_navigate" -> <<"goto", "wait_for_load_state">>
      [] a = "browser_fill" -> <<"fill">>
      [] a = "browser_find_by_xpath" -> <<"query_selector_all">>
      [] a = "browser_go_back" -> <<"go_back">>
      [] a = "browser_reload" -> <<"reload">>
      [] a = "browser_click" -> <<"click">>
      [] a = "browser_save_as_pdf" -> <<"pdf">>
      [] a = "browser_screenshot" ->
            IF sel THEN <<"query_selector", "element_screenshot">>
            ELSE <<"screenshot">>
      [] a = "browser_scroll_to_top" -> <<"evaluate", "sleep">>
      [] a = "browser_scroll_to_bottom" -> <<"evaluate", "sleep">>
      [] a = "browser_scroll_to_element" -> <<"query_selector", "evaluate", "sleep">>
      [] a = "get_current_url" -> <<>>
      [] a = "get_element_html" -> <<"query_selector", "inner_html">>
      [] a = "get_element_text" -> <<"query_selector", "inner_text">>
      [] a = "get_page_content" -> <<"evaluate">>
      [] a = "get_page_html" -> <<"content">>
      [] a = "get_page_title" -> <<"title">>
      [] a = "save_element_as_html" -> <<"query_selector", "element_evaluate">>
      [] a = "save_page_as_html" -> <<"content">>
      [] a = "save_page_screenshot" -> <<"screenshot">>
      [] a = "clear_field" -> <<"query_selector", "element_fill">>
      [] a = "browser_press_key" -> <<"keyboard_press">>
      [] a = "browser_scroll_one_step" -> <<"evaluate">>
      [] a = "clear_browser_data" -> <<"clear_cookies", "evaluate">>
      [] a = "get_cookies" -> <<"cookies">>
      [] OTHER -> <<>>

\* What a handler does with an exception raised by one of its Script calls:
\* "return" (try/except returning an error string), "reraise" (try/except
\* that raises ValueError) or "none" (no try: the exception leaves the handler).
Catch(a) ==
    CASE a \in { "browser_go_back", "browser_reload", "get_current_url",
                 "get_page_content", "get_page_html", "get_page_title",
                 "clear_browser_data", "get_cookies" } -> "none"
      [] a = "browser_scroll_to_bottom" -> "reraise"
      [] OTHER -> "return"

\* Handlers that write a file with open() after their last engine call.
WritesFile(a) == a \in {"save_element_as_html", "save_page_as_html"}

\* get_cookies serialises with json.dumps, and the module imports no json.
JsonImported == FALSE

OkMsg(a) ==
    CASE a = "browser_navigate" -> "Navigated to "
      [] a = "browser_close" -> "Browser closed"
      [] a = "browser_fill" -> "Filled text in element with selector "
      [] a = "browser_find_by_xpath" -> "Found n elements matching XPath "
      [] a = "browser_go_back" -> "Navigated back"
      [] a = "browser_reload" -> "Page reloaded"
      [] a = "browser_click" -> "Clicked element with selector "
      [] a = "browser_save_as_pdf" -> "PDF saved to "
      [] a \in {"browser_screenshot", "save_page_screenshot"} -> "Screenshot saved to "
      [] a = "browser_scroll_to_top" -> "Scrolled to top of page"
      [] a = "browser_scroll_to_bottom" -> "Scrolled to bottom of page"
      [] a = "browser_scroll_to_element" -> "Scrolled to element with selector "
      [] a = "save_element_as_html" -> "Element HTML saved to "
      [] a = "save_page_as_html" -> "HTML saved to "
      [] a = "clear_field" -> "Cleared content of input field with XPath: "
      [] a = "browser_press_key" -> "Pressed key "
      [] a = "browser_scroll_one_step" -> "Scrolled the page by n pixels"
      [] a = "clear_browser_data" -> "Browser data cleared"
      [] OTHER -> "<content>"

ErrMsg(a) ==
    CASE a = "browser_navigate" -> "Error navigating to "
      [] a = "browser_fill" -> "Could not fill element: "
      [] a = "browser_find_by_xpath" -> "Error finding elements: "
      [] a = "browser_click" -> "Could not click element: "
      [] a = "browser_save_as_pdf" -> "Failed to generate PDF: "
      [] a \in {"browser_screenshot", "save_page_screenshot"}
            -> "Failed to take screenshot: "
      [] a = "browser_scroll_to_top" -> "Failed to scroll to top: "
      [] a = "browser_scroll_to_bottom" -> "Failed to scroll to bottom: "
      [] a = "browser_scroll_to_element" -> "Failed to scroll to element: "
      [] a = "get_element_html" -> "Error getting element HTML: "
      [] a = "get_element_text" -> "Error getting element text: "
      [] a = "save_element_as_html" -> "Failed to save element HTML: "
      [] a = "save_page_as_html" -> "Failed to save HTML: "
      [] a = "clear_field" -> "Failed to clear input field: "
      [] a = "browser_press_key" -> "Error pressing key: "
      [] a = "browser_scroll_one_step" -> "Failed to scroll the page: "
      [] OTHER -> "<exception>"

NotFoundMsg(a) ==
    CASE a = "browser_screenshot" -> "Error: Could not find element with selector "
      [] a = "browser_scroll_to_element" -> "Error: No element found with selector: "
      [] a = "clear_field" -> "Error: No input field found with XPath: "
      [] OTHER -> "Error: No element found with XPath: "

\* ------------------------------------------------------------------- state
VARIABLES
    sess,       \* the fields of the one PlaywrightManager instance, pw_manager
    engines,    \* engine handles started so far:   id -> [alive]
    browsers,   \* browsers launched so far:        id -> [engine, browser_type, headless, alive]
    contexts,   \* browsing contexts opened so far: id -> [browser, viewport, alive]
    pages,      \* pages opened so far:             id -> [context, alive]
    task,       \* the handler invocation each task is running, and where it is
    calls,      \* handler invocations dispatched so far
    cls,        \* the class PlaywrightManager: _instance, the instance's
                \* `initialized`, the objects __new__ has allocated, and the
                \* constructions made after the first
    ghost       \* history: the current run of acquisitions, how the last
                \* acquisition ended, whether the last invocation to end was a
                \* Browser-Close that returned, whether it ended in a validation,
                \* not-found or page-call failure, any construction/teardown fault

vars == <<sess, engines, browsers, contexts, pages, task, calls, cls, ghost>>
res == <<engines, browsers, contexts, pages>>

\* No viewport option passed to new_context().
NoViewport == <<>>

NoWait == [site |-> "none", on |-> None, browser_type |-> "none",
           headless |-> FALSE, viewport |-> NoViewport]
NoResult == [kind |-> "none", why |-> "none", msg |-> "none"]

\* pw_manager = PlaywrightManager(browser_type='chromium', headless=False,
\*                                viewer_port=(1200, 900))
InitSession ==
    [ playwright |-> None, browser |-> None, context |-> None, page |-> None,
      browser_type |-> "chromium", headless |-> FALSE,
      viewport_width |-> 1200, viewport_height |-> 900 ]

\* The class before any construction: _instance = None.
NoInstance ==
    [instance |-> None, initialized |-> FALSE, objects |-> 0, made |-> 0, built |-> FALSE]

\* __new__: the one instance, allocated on the first construction only.
PlaywrightManager_new(k) ==
    IF k.instance = None
    THEN [k EXCEPT !.objects = @ + 1, !.instance = k.objects + 1, !.initialized = FALSE]
    ELSE k

\* Mutant: __init__ without its `if not self.initialized` guard.
IsInitialized_Never(k) == FALSE
IsInitialized(k) == k.initialized

\* __init__ on the instance __new__ returned, whose fields are s.
PlaywrightManager_init(k, s, browser_type, headless, viewer_port) ==
    IF ~IsInitialized(k)
    THEN [ playwright |-> None, browser |-> None, context |-> None, page |-> None,
           browser_type |-> browser_type, headless |-> headless,
           viewport_width |-> viewer_port[1], viewport_height |-> viewer_port[2] ]
    ELSE s

\* The class once the module has constructed pw_manager.
InitClass == [PlaywrightManager_new(NoInstance) EXCEPT !.initialized = TRUE]

\* The arguments a construction can be given.
BrowserTypes == {"chromium", "firefox", "webkit"}
Viewports == {<<1200, 900>>, <<800, 600>>}

IdleTask ==
    [ act |-> "none", arg |-> "valid", sel |-> FALSE, hit |-> TRUE, pc |-> "idle",
      wait |-> NoWait, idx |-> 0, pg |-> None, eb |-> "none", ncl |-> 0,
      ops |-> <<>>, pre |-> InitSession, entry |-> InitSession, acq |-> InitSession,
      prevAcq |-> "none", afterClose |-> FALSE, afterSoft |-> FALSE,
      result |-> NoResult ]

NoMade == [start |-> 0, launch |-> 0, new_context |-> 0, new_page |-> 0]
FreshRun == [valid |-> TRUE, n |-> 0, page |-> None, same |-> TRUE, made |-> NoMade]

Init ==
    /\ sess = InitSession
    /\ engines = <<>>
    /\ browsers = <<>>
    /\ contexts = <<>>
    /\ pages = <<>>
    /\ task = [t \in Tasks |-> IdleTask]
    /\ calls = 0
    /\ cls = InitClass
    /\ ghost = [run |-> FreshRun, lastAcq |-> "none", closed |-> FALSE,
                soft |-> FALSE, faults |-> FALSE]

\* The session fields that hold engine resources.
Refs(s) == <<s.playwright, s.browser, s.context, s.page>>
Empty(s) == Refs(s) = <<None, None, None, None>>
Full(s) == s.playwright # None /\ s.browser # None /\ s.context # None /\ s.page # None

\* --------------------------------------------------- how a handler ends
\* A configuration c = [s, t, g] is the session, the running task's record
\* and the history while the task's code runs from one await to the next.
\* The invocation ends in a validation failure, a not-found failure or the
\* failure of a page-capability call.
EndsSoft(tr, why) ==
    \/ why \in {"validation", "not_found"}
    \/ /\ tr.pc = "handler"
       /\ tr.ops # <<>>
       /\ ~tr.ops[Len(tr.ops)].ok

Finish(c, kind, why, msg) ==
    [c EXCEPT !.t.pc = "done", !.t.wait = NoWait,
              !.t.result = [kind |-> kind, why |-> why, msg |-> msg],
              !.g.closed = (c.t.act = "browser_close" /\ kind = "ok"),
              !.g.soft = EndsSoft(c.t, why)]

\* An exception that no try of the handler covers leaves the handler.
Raise(c, why) == Finish(c, "raised", why, "<exception>")

\* Mutant: the except clause around the page calls drops the session's page.
HandlerException_DropsPage(c) ==
    Finish([c EXCEPT !.s.page = None], "failure", "engine", ErrMsg(c.t.act))

\* An exception raised inside the handler's try block, if it has one.
HandlerException(c) ==
    CASE Catch(c.t.act) = "return" -> Finish(c, "failure", "engine", ErrMsg(c.t.act))
      [] Catch(c.t.act) = "reraise" -> Finish(c, "raised", "ValueError", ErrMsg(c.t.act))
      [] OTHER -> Raise(c, "exception")

\* The code after the last awaited call of the handler.
ScriptEnd(c) ==
    IF c.t.act = "get_cookies" /\ ~JsonImported
    THEN Raise(c, "NameError")
    ELSE Finish(c, "ok", "none", OkMsg(c.t.act))

\* Issue the handler's i-th page-capability call on its local `page`.
IssueCap(c, i) ==
    LET sc == Script(c.t.act, c.t.sel) IN
    IF i > Len(sc) THEN ScriptEnd(c)
    ELSE IF sc[i] # "sleep" /\ c.t.pg = None THEN HandlerException(c)
    ELSE [c EXCEPT !.t.pc = "handler", !.t.idx = i,
                   !.t.wait = [NoWait EXCEPT !.site = sc[i], !.on = c.t.pg]]

\* ------------------------------------------------ ensure_browser()
\* return self.page, and the handler goes on with the returned page.
AfterEnsure(c) ==
    LET r == c.g.run
        r1 == [r EXCEPT !.n = @ + 1,
                        !.page = IF r.n = 0 THEN c.s.page ELSE @,
                        !.same = @ /\ (r.n = 0 \/ r.page = c.s.page)]
    IN IssueCap([c EXCEPT !.t.pg = c.s.page, !.t.eb = "returned", !.t.acq = c.s,
                          !.g.run = r1, !.g.lastAcq = "ok"], 1)

\* An exception inside ensure_browser(): no handler calls it inside a try.
EnsureRaise(c, why) ==
    Raise([c EXCEPT !.t.eb = "raised", !.g.lastAcq = "failed",
                    !.g.run.valid = FALSE], why)

\* The object an awaited construction call is made on.
EnsureTarget(s, site) ==
    CASE site = "start" -> None
      [] site = "launch" -> s.playwright
      [] site \in {"new_context_vp", "new_context"} -> s.browser
      [] OTHER -> s.context

IssueEnsure(c, site) ==
    IF site # "start" /\ EnsureTarget(c.s, site) = None
    THEN EnsureRaise(c, "AttributeError")
    ELSE [c EXCEPT !.t.pc = "ensure_browser", !.t.idx = 0,
                   !.t.wait = [ site |-> site, on |-> EnsureTarget(c.s, site),
                                browser_type |-> c.s.browser_type,
                                headless |-> c.s.headless,
                                viewport |-> IF site = "new_context_vp"
                                             THEN <<c.s.viewport_width, c.s.viewport_height>>
                                             ELSE NoViewport ]]

\* Mutant: ensure_browser() starts a new engine on every call.
NeedsEngine_Always(s) == TRUE

\* The four conditions of ensure_browser().
NeedsEngine(s) == s.playwright = None
\* Mutant: the launch block is entered on a missing page, not a missing browser.
NeedsBrowser_ByPage(s) == s.page = None
NeedsBrowser(s) == s.browser = None
\* Mutant: the context test of line 72 always finds the context missing.
NeedsContext_Always(s) == TRUE

NeedsContext(s) == s.context = None
\* Mutant: a page is opened whether or not the session has one.
NeedsPage_Always(s) == TRUE
NeedsPage(s) == s.page = None

EnsurePageCheck(c) ==
    IF NeedsPage(c.s) THEN IssueEnsure(c, "new_page_2") ELSE AfterEnsure(c)

EnsureContextCheck(c) ==
    IF NeedsContext(c.s) THEN IssueEnsure(c, "new_context") ELSE EnsurePageCheck(c)

EnsureBrowserCheck(c) ==
    IF NeedsBrowser(c.s) THEN IssueEnsure(c, "launch") ELSE EnsureContextCheck(c)

EnsureEntry(c) ==
    LET c1 == [c EXCEPT !.t.eb = "running", !.t.entry = c.s] IN
    IF NeedsEngine(c1.s) THEN IssueEnsure(c1, "start") ELSE EnsureBrowserCheck(c1)

\* The code of ensure_browser() that follows a construction call that returned.
EnsureResume(c, site) ==
    CASE site = "start" -> EnsureBrowserCheck(c)
      [] site = "launch" -> IssueEnsure(c, "new_context_vp")
      [] site = "new_context_vp" -> IssueEnsure(c, "new_page_1")
      [] site = "new_page_1" -> EnsureContextCheck(c)
      [] site = "new_context" -> EnsurePageCheck(c)
      [] OTHER -> AfterEnsure(c)

\* Mutant: close() skips the page.
HasPage_Never(s) == FALSE

\* --------------------------------------------------------- close()
\* The four conditions of close().
HasPage(s) == s.page # None
\* Mutant: close() skips the context.
HasContext_Never(s) == FALSE
HasContext(s) == s.context # None
\* Mutant: close() skips the browser.
HasBrowser_Never(s) == FALSE

HasBrowser(s) == s.browser # None
HasEngine(s) == s.playwright # None

\* Mutant: close() forgets `self.page = None`.
ClearRef_KeepPage(s, site) ==
    CASE site = "page_close" -> s
      [] site = "context_close" -> [s EXCEPT !.context = None]
      [] site = "browser_close" -> [s EXCEPT !.browser = None]
      [] OTHER -> [s EXCEPT !.playwright = None]

\* The reference close() clears once the awaited close/stop call has returned.
ClearRef(s, site) ==
    CASE site = "page_close" -> [s EXCEPT !.page = None]
      [] site = "context_close" -> [s EXCEPT !.context = None]
      [] site = "browser_close" -> [s EXCEPT !.browser = None]
      [] OTHER -> [s EXCEPT !.playwright = None]

CloseTarget(s, site) ==
    CASE site = "page_close" -> s.page
      [] site = "context_close" -> s.context
      [] site = "browser_close" -> s.browser
      [] OTHER -> s.playwright

\* Mutant: close() waits for a lock that no task releases.
IssueClose_Blocks(c, site) ==
    [c EXCEPT !.t.pc = "blocked", !.t.idx = 0,
              !.t.wait = [NoWait EXCEPT !.site = site, !.on = CloseTarget(c.s, site)]]

IssueClose(c, site) ==
    [c EXCEPT !.t.pc = "close", !.t.idx = 0,
              !.t.wait = [NoWait EXCEPT !.site = site, !.on = CloseTarget(c.s, site)]]

\* The configuration browser_save_as_pdf adopts after its close().
PdfBrowserType == "chromium"
\* Mutant: browser_save_as_pdf adopts headless = True.
PdfHeadless_True == TRUE

PdfHeadless == FALSE

\* The test browser_save_as_pdf makes before it tears the session down.
PdfMustReconfigure(s) == s.browser_type # "chromium" \/ ~s.headless

\* close() has returned to its caller: browser_close or browser_save_as_pdf.
AfterClose(c) ==
    LET c1 == [c EXCEPT !.g.run = IF Empty(c.s) THEN FreshRun ELSE @] IN
    IF c.t.act = "browser_close"
    THEN Finish(c1, "ok", "none", OkMsg("browser_close"))
    ELSE EnsureEntry([c1 EXCEPT !.s.browser_type = PdfBrowserType,
                                !.s.headless = PdfHeadless])

CloseEngineCheck(c) ==
    IF HasEngine(c.s) THEN IssueClose(c, "stop") ELSE AfterClose(c)

CloseBrowserCheck(c) ==
    IF HasBrowser(c.s) THEN IssueClose(c, "browser_close") ELSE CloseEngineCheck(c)

CloseContextCheck(c) ==
    IF HasContext(c.s) THEN IssueClose(c, "context_close") ELSE CloseBrowserCheck(c)

CloseEntry(c) ==
    LET c1 == [c EXCEPT !.t.ncl = @ + 1, !.g.run.valid = FALSE] IN
    IF HasPage(c1.s) THEN IssueClose(c1, "page_close") ELSE CloseContextCheck(c1)

\* The code of close() that follows a close/stop call that returned.
CloseResume(c, site) ==
    LET c1 == [c EXCEPT !.s = ClearRef(c.s, site)] IN
    CASE site = "page_close" -> CloseContextCheck(c1)
      [] site = "context_close" -> CloseBrowserCheck(c1)
      [] site = "browser_close" -> CloseEngineCheck(c1)
      [] OTHER -> AfterClose(c1)

\* Mutant: browser_save_as_pdf adopts its configuration without `await
\* pw_manager.close()`.
Enter_PdfSkipsClose(c) ==
    IF Validates(c.t.act) /\ c.t.arg # "valid"
    THEN Finish(c, "failure", "validation", ValidationMsg(c.t.act, c.t.arg))
    ELSE IF c.t.act = "browser_close" THEN CloseEntry(c)
    ELSE IF c.t.act = "browser_save_as_pdf" /\ PdfMustReconfigure(c.s) THEN AfterClose(c)
    ELSE EnsureEntry(c)

\* ------------------------------------------------- a handler's first lines
Enter(c) ==
    IF Validates(c.t.act) /\ c.t.arg # "valid"
    THEN Finish(c, "failure", "validation", ValidationMsg(c.t.act, c.t.arg))
    ELSE IF c.t.act = "browser_close" THEN CloseEntry(c)
    ELSE IF c.t.act = "browser_save_as_pdf" /\ PdfMustReconfigure(c.s) THEN CloseEntry(c)
    ELSE EnsureEntry(c)

\* ------------------------------------------------ the automation engine
\* Resources that go down with the ones closed or killed.
PagesOfContexts(X) == {p \in DOMAIN pages : pages[p].context \in X}
ContextsOfBrowsers(B) == {x \in DOMAIN contexts : contexts[x].browser \in B}
BrowsersOfEngines(E) == {b \in DOMAIN browsers : browsers[b].engine \in E}

Down(seq, D) ==
    [i \in 1..Len(seq) |-> IF i \in D THEN [seq[i] EXCEPT !.alive = FALSE] ELSE seq[i]]

ClosePages(P) ==
    /\ pages' = Down(pages, P)
    /\ UNCHANGED <<engines, browsers, contexts>>

CloseContexts(X) ==
    /\ contexts' = Down(contexts, X)
    /\ pages' = Down(pages, PagesOfContexts(X))
    /\ UNCHANGED <<engines, browsers>>

CloseBrowsers(B) ==
    /\ browsers' = Down(browsers, B)
    /\ contexts' = Down(contexts, ContextsOfBrowsers(B))
    /\ pages' = Down(pages, PagesOfContexts(ContextsOfBrowsers(B)))
    /\ UNCHANGED engines

StopEngines(E) ==
    /\ engines' = Down(engines, E)
    /\ browsers' = Down(browsers, BrowsersOfEngines(E))
    /\ contexts' = Down(contexts, ContextsOfBrowsers(BrowsersOfEngines(E)))
    /\ pages' = Down(pages, PagesOfContexts(ContextsOfBrowsers(BrowsersOfEngines(E))))

\* A construction call can only succeed on an owner that is still alive.
OwnerAlive(w) ==
    CASE w.site = "start" -> TRUE
      [] w.site = "launch" -> engines[w.on].alive
      [] w.site \in {"new_context_vp", "new_context"} -> browsers[w.on].alive
      [] OTHER -> contexts[w.on].alive

Install(t, c) ==
    /\ sess' = c.s
    /\ task' = [task EXCEPT ![t] = c.t]
    /\ ghost' = c.g

Logged(tr, ok) == [tr EXCEPT !.ops = Append(@, [site |-> tr.wait.site, ok |-> ok])]

\* ------------------------------------------------------------- actions
\* No handler invocation is in progress.
Quiet == \A u \in Tasks : task[u].pc = "idle"

\* The host calls one of the registered tools H (Kill-All-Chrome-Instances
\* apart); the handler runs up to its first await (or to its end).
DispatchOf(t, H) ==
    /\ task[t].pc = "idle"
    /\ calls < MaxCalls
    /\ \E a \in H :
         \E arg \in Args(a) :
           \E sel \in (IF a = "browser_screenshot" THEN BOOLEAN ELSE {FALSE}) :
             \E hit \in (IF Targets(a, sel) /\ arg = "valid" THEN BOOLEAN ELSE {TRUE}) :
               LET tr == [IdleTask EXCEPT !.act = a, !.arg = arg, !.sel = sel,
                                          !.hit = hit, !.pre = sess,
                                          !.prevAcq = ghost.lastAcq,
                                          !.afterClose = ghost.closed,
                                          !.afterSoft = ghost.soft]
               IN Install(t, Enter([s |-> sess, t |-> tr, g |-> ghost]))
    /\ calls' = calls + 1
    /\ UNCHANGED <<res, cls>>

Dispatch(t) == DispatchOf(t, Handlers)

\* A process psutil lists whose name contains 'chrome' and whose executable
\* path contains 'playwright': a live browser launched as chromium.
ChromeProcesses ==
    {b \in DOMAIN browsers : browsers[b].alive /\ browsers[b].browser_type = "chromium"}

\* Kill-All-Chrome-Instances: no await, so the whole handler is one step.
\* terminate() ends a process, or raises NoSuchProcess/AccessDenied, which
\* the loop logs; any other exception ends the loop with an error string.
kill_all_chrome_instances(t) ==
    /\ task[t].pc = "idle"
    /\ calls < MaxCalls
    /\ \E killed \in SUBSET ChromeProcesses :
         \E ok \in BOOLEAN :
           /\ CloseBrowsers(killed)
           /\ task' = [task EXCEPT ![t] =
                 [IdleTask EXCEPT
                    !.act = "kill_all_chrome_instances", !.pc = "done",
                    !.pre = sess, !.prevAcq = ghost.lastAcq, 
                    !.afterClose = ghost.closed,
                    !.afterSoft = ghost.soft,
                    !.result =
                       IF ok
                       THEN [kind |-> "ok", why |-> "none",
                             msg |-> "All Chrome instances generated via Playwright have been terminated."]
                       ELSE [kind |-> "failure", why |-> "engine",
                             msg |-> "Failed to kill Chrome instances: "]]]
    /\ ghost' = [ghost EXCEPT !.closed = FALSE, !.soft = FALSE]
    /\ calls' = calls + 1
    /\ UNCHANGED <<sess, cls>>

MadeKey(site) ==
    CASE site = "start" -> "start"
      [] site = "launch" -> "launch"
      [] site \in {"new_context_vp", "new_context"} -> "new_context"
      [] OTHER -> "new_page"

\* The field ensure_browser() assigns from the awaited call's result.
Assign(s, site, id) ==
    CASE site = "start" -> [s EXCEPT !.playwright = id]
      [] site = "launch" -> [s EXCEPT !.browser = id]
      [] site \in {"new_context_vp", "new_context"} -> [s EXCEPT !.context = id]
      [] OTHER -> [s EXCEPT !.page = id]

\* The engine's side of a construction call that succeeds: a new resource.
Construct(w) ==
    CASE w.site = "start" ->
            /\ engines' = Append(engines, [alive |-> TRUE])
            /\ UNCHANGED <<browsers, contexts, pages>>
      [] w.site = "launch" ->
            /\ browsers' = Append(browsers,
                   [engine |-> w.on, browser_type |-> w.browser_type,
                    headless |-> w.headless, alive |-> TRUE])
            /\ UNCHANGED <<engines, contexts, pages>>
      [] w.site \in {"new_context_vp", "new_context"} ->
            /\ contexts' = Append(contexts,
                   [browser |-> w.on, viewport |-> w.viewport, alive |-> TRUE])
            /\ UNCHANGED <<engines, browsers, pages>>
      [] OTHER ->
            /\ pages' = Append(pages, [context |-> w.on, alive |-> TRUE])
            /\ UNCHANGED <<engines, browsers, contexts>>

NewId(site) ==
    CASE site = "start" -> Len(engines) + 1
      [] site = "launch" -> Len(browsers) + 1
      [] site \in {"new_context_vp", "new_context"} -> Len(contexts) + 1
      [] OTHER -> Len(pages) + 1

\* An awaited call of ensure_browser() returns or raises.
ensure_browser(t) ==
    /\ task[t].pc = "ensure_browser"
    /\ \E ok \in BOOLEAN :
         LET w == task[t].wait
             tr == Logged(task[t], ok)
         IN IF ok
            THEN /\ OwnerAlive(w)
                 /\ Construct(w)
                 /\ Install(t, EnsureResume(
                        [ s |-> Assign(sess, w.site, NewId(w.site)),
                          t |-> tr,
                          g |-> [ghost EXCEPT !.run.made[MadeKey(w.site)] = @ + 1] ],
                        w.site))
            ELSE /\ UNCHANGED res
                 /\ Install(t, EnsureRaise(
                        [s |-> sess, t |-> tr, g |-> [ghost EXCEPT !.faults = TRUE]],
                        "engine"))
    /\ UNCHANGED <<calls, cls>>

\* The engine's side of a close/stop call that succeeds.
Destroy(w) ==
    CASE w.site = "page_close" -> ClosePages({w.on})
      [] w.site = "context_close" -> CloseContexts({w.on})
      [] w.site = "browser_close" -> CloseBrowsers({w.on})
      [] OTHER -> StopEngines({w.on})

\* An awaited call of close() returns or raises; neither browser_close nor
\* browser_save_as_pdf calls close() inside a try.
close(t) ==
    /\ task[t].pc = "close"
    /\ \E ok \in BOOLEAN :
         LET w == task[t].wait
             tr == Logged(task[t], ok)
         IN IF ok
            THEN /\ Destroy(w)
                 /\ Install(t, CloseResume([s |-> sess, t |-> tr, g |-> ghost], w.site))
            ELSE /\ UNCHANGED res
                 /\ Install(t, Raise(
                        [s |-> sess, t |-> tr, g |-> [ghost EXCEPT !.faults = TRUE]],
                        "engine"))
    /\ UNCHANGED <<calls, cls>>

\* A call on a page (or on an element or the context reached through it)
\* can only succeed while the page is open.
PageOpen(p) == p # None /\ pages[p].alive

\* An awaited page-capability call of a handler returns or raises.
\* html: element.evaluate returned non-empty HTML; wrote: open()/write() of
\* the output file worked.  query_selector returns None when the selector
\* matches nothing; click and fill wait for a matching element and raise
\* TimeoutError when there is none.
PageCall(t) ==
    /\ task[t].pc = "handler"
    /\ \E ok \in BOOLEAN, html \in BOOLEAN, wrote \in BOOLEAN :
         LET w == task[t].wait
             a == task[t].act
             c == [s |-> sess, t |-> Logged(task[t], ok), g |-> ghost]
             last == task[t].idx = Len(Script(a, task[t].sel))
         IN /\ w.site = "sleep" => ok
            /\ (ok /\ w.site # "sleep") => PageOpen(w.on)
            /\ (ok /\ w.site \in WaitsForElement) => task[t].hit
            /\ Install(t,
                 IF ~ok THEN HandlerException(c)
                 ELSE IF w.site = "query_selector" /\ ~task[t].hit
                      THEN Finish(c, "failure", "not_found", NotFoundMsg(a))
                 ELSE IF w.site = "element_evaluate" /\ ~html
                      THEN Finish(c, "failure", "extract",
                                  "Error: Could not extract HTML from element with XPath: ")
                 ELSE IF last /\ WritesFile(a) /\ ~wrote
                      THEN HandlerException(c)
                 ELSE IssueCap(c, task[t].idx + 1))
    /\ UNCHANGED <<res, calls, cls>>

\* The handler's result (or exception) has reached the host.
Collect(t) ==
    /\ task[t].pc = "done"
    /\ task' = [task EXCEPT ![t] = IdleTask]
    /\ UNCHANGED <<sess, res, calls, cls, ghost>>

\* Handler invocations one at a time: each runs to its end before the next.
Next ==
    \E t \in Tasks :
        \/ Quiet /\ Dispatch(t)
        \/ Quiet /\ kill_all_chrome_instances(t)
        \/ ensure_browser(t)
        \/ close(t)
        \/ PageCall(t)
        \/ Collect(t)

Spec == Init /\ [][Next]_vars

\* A construction of PlaywrightManager after the module's own (line 107):
\* __new__, then __init__ with the caller's arguments.
NewManager ==
    /\ cls.made < MaxConstructions
    /\ \E browser_type \in BrowserTypes, headless \in BOOLEAN, viewer_port \in Viewports :
         LET k == PlaywrightManager_new(cls) IN
         /\ sess' = PlaywrightManager_init(k, sess, browser_type, headless, viewer_port)
         /\ cls' = [k EXCEPT !.initialized = TRUE, !.made = @ + 1,
                             !.built = @ \/ ( /\ Full(sess)
                                              /\ browser_type # sess.browser_type
                                              /\ headless # sess.headless
                                              /\ viewer_port[1] # sess.viewport_width )]
    /\ UNCHANGED <<res, task, calls, ghost>>

\* Handler invocations one at a time, and constructions of the manager
\* between their steps.
NextSingleton == Next \/ NewManager

SpecSingleton == Init /\ [][NextSingleton]_vars

\* Handler invocations in flight together: the host dispatches a call while
\* another is suspended at an await, and the event loop resumes whichever
\* task's awaited call has completed.  MaxOverlapping bounds the calls of a
\* run in which invocations overlap, and OverlappingHandlers are the tools
\* called in it: the two that tear the session down, one that validates and
\* awaits a page call, one that makes two page calls and one that makes none.
OverlappingHandlers ==
    { "browser_navigate", "browser_close", "browser_save_as_pdf",
      "browser_click", "get_current_url" }

NextConc ==
    \E t \in Tasks :
        \/ calls < MaxOverlapping /\ DispatchOf(t, OverlappingHandlers)
        \/ calls < MaxOverlapping /\ kill_all_chrome_instances(t)
        \/ ensure_browser(t)
        \/ close(t)
        \/ PageCall(t)
        \/ Collect(t)

SpecConc == Init /\ [][NextConc]_vars

\* Every awaited engine call eventually returns or raises, and the event
\* loop then resumes the task that awaits it.
Fairness ==
    \A t \in Tasks :
        /\ WF_vars(ensure_browser(t))
        /\ WF_vars(close(t))
        /\ WF_vars(PageCall(t))

SpecFair == Init /\ [][NextConc]_vars /\ Fairness

\* ===================================================================
\* Properties
\* ===================================================================
Done(t) == task[t].pc = "done"
ConstructionSites ==
    {"start", "launch", "new_context_vp", "new_context", "new_page_1", "new_page_2"}
CloseSites == {"page_close", "context_close", "browser_close", "stop"}

IsConstruction(o) == o.site \in ConstructionSites
IsClose(o) == o.site \in CloseSites

\* The construction steps an invocation has performed, in order.
Built(t) == SelectSeq(task[t].ops, IsConstruction)
Closed(t) == SelectSeq(task[t].ops, IsClose)
Kinds(seq) == [i \in 1..Len(seq) |-> MadeKey(seq[i].site)]
Sites(seq) == [i \in 1..Len(seq) |-> seq[i].site]
AllOk(seq) == \A i \in 1..Len(seq) : seq[i].ok

\* All four present, each created from the next one up.
Attached(s) ==
    /\ Full(s)
    /\ pages[s.page].context = s.context
    /\ contexts[s.context].browser = s.browser
    /\ browsers[s.browser].engine = s.playwright

OnceEach == [start |-> 1, launch |-> 1, new_context |-> 1, new_page |-> 1]

\* C1 (idempotent acquire): in a run of ensure_browser() calls that starts on
\* an empty session and has no close(), no reconfiguration and no engine
\* failure, every call returns the same page, that page is attached to the
\* session's context, browser and engine handle, and the engine start, the
\* browser launch, the context creation and the page creation have each
\* been performed exactly once.
IdempotentAcquire ==
    (ghost.run.valid /\ ghost.run.n >= 1) =>
        /\ ghost.run.same
        /\ ghost.run.made = OnceEach
        /\ sess.page = ghost.run.page
        /\ Attached(sess)

IdempotentAcquireWitness == ghost.run.valid /\ ghost.run.n >= 3

BrowserClosed == [kind |-> "ok", why |-> "none", msg |-> "Browser closed"]

\* C2 (idempotent release): a Browser-Close on an empty session, or right
\* after a Browser-Close that returned, issues no close/stop call, returns
\* 'Browser closed' and leaves the session empty; a Browser-Close from any
\* session state in which no close/stop call fails returns 'Browser closed'
\* and leaves page, context, browser and engine handle all absent.
IdempotentRelease ==
    \A t \in Tasks :
        (Done(t) /\ task[t].act = "browser_close") =>
            /\ (Empty(task[t].pre) \/ task[t].afterClose) =>
                   (task[t].ops = <<>> /\ task[t].result = BrowserClosed /\ Empty(sess))
            /\ AllOk(task[t].ops) =>
                   (task[t].result = BrowserClosed /\ Empty(sess))

IdempotentReleaseWitness ==
    \E t \in Tasks :
        /\ Done(t) /\ task[t].act = "browser_close"
        /\ task[t].afterClose
        /\ Len(pages) > 0

AllOrNothing == Empty(sess) \/ Attached(sess)

AcquireReturnsLivePage ==
    \A t \in Tasks :
        task[t].eb = "returned" =>
            /\ task[t].pg = sess.page
            /\ Attached(sess)
            /\ pages[sess.page].alive
            /\ contexts[sess.context].alive
            /\ browsers[sess.browser].alive
            /\ engines[sess.playwright].alive

\* C5 as claimed: an invocation whose page-capability call raised ends with
\* a structured failure, not with an exception.
NoExceptionCrossesDispatch ==
    \A t \in Tasks :
        ( /\ Done(t)
          /\ task[t].ops # <<>>
          /\ ~task[t].ops[Len(task[t].ops)].ok
          /\ task[t].ops[Len(task[t].ops)].site \notin ConstructionSites \cup CloseSites )
        => task[t].result.kind = "failure"

\* The session holds exactly what it held when ensure_browser() was entered
\* plus what this invocation constructed.
Held(s, k) ==
    CASE k = "start" -> s.playwright # None
      [] k = "launch" -> s.browser # None
      [] k = "new_context" -> s.context # None
      [] OTHER -> s.page # None

KeepsConstructed(t) ==
    \A k \in DOMAIN OnceEach :
        Held(sess, k) <=>
            \/ Held(task[t].entry, k)
            \/ \E i \in 1..Len(Built(t)) :
                  Built(t)[i].ok /\ MadeKey(Built(t)[i].site) = k

\* C6 as claimed: an invocation in which a construction step of
\* ensure_browser() failed ends with a structured failure, and the session
\* keeps exactly the pieces constructed before the failing step.
AcquireFailureReported ==
    \A t \in Tasks :
        (Done(t) /\ task[t].eb = "raised") =>
            (task[t].result.kind = "failure" /\ KeepsConstructed(t))

\* C7 as claimed: close() never raises, whichever close/stop call fails, and
\* ends with page, context, browser and engine handle all absent.
TeardownAlwaysCompletes ==
    \A t \in Tasks :
        (Done(t) /\ task[t].act = "browser_close") =>
            (task[t].result.kind # "raised" /\ Empty(sess))

\* The construction steps whose resource a session lacks, in construction order.
Lacks(s, k) == ~Held(s, k)
Missing(s) ==
    SelectSeq(<<"start", "launch", "new_context", "new_page">>,
              LAMBDA k : Lacks(s, k))

\* C8 (self-healing acquire): when the previous ensure_browser() failed at a
\* construction step, an ensure_browser() in which no engine step fails
\* performs exactly the construction steps whose resource was absent when it
\* was entered, once each and in construction order, keeps every resource
\* that was present (a missing page is opened in the existing context), and
\* returns with engine handle, browser, context and page all present.
SelfHealingAcquire ==
    \A t \in Tasks :
        (task[t].eb = "returned" /\ task[t].prevAcq = "failed") =>
            /\ Full(sess)
            /\ Kinds(Built(t)) = Missing(task[t].entry)
            /\ AllOk(Built(t))
            /\ \A k \in DOMAIN OnceEach :
                  Held(task[t].entry, k) =>
                      CASE k = "start" -> sess.playwright = task[t].entry.playwright
                        [] k = "launch" -> sess.browser = task[t].entry.browser
                        [] k = "new_context" -> sess.context = task[t].entry.context
                        [] OTHER -> sess.page = task[t].entry.page
            /\ pages[sess.page].context = sess.context

SelfHealingAcquireWitness ==
    \E t \in Tasks :
        /\ task[t].eb = "returned" /\ task[t].prevAcq = "failed"
        /\ task[t].entry.context # None
        /\ task[t].entry.page = None
        /\ Sites(Built(t)) = <<"new_page_2">>

PdfInvoked(t) ==
    /\ task[t].act = "browser_save_as_pdf"
    /\ \/ (task[t].pc = "handler" /\ task[t].wait.site = "pdf")
       \/ \E i \in 1..Len(task[t].ops) : task[t].ops[i].site = "pdf"

BrowserOfPage(p) == browsers[contexts[pages[p].context].browser]

\* C9 as claimed: when Browser-Save-As-PDF runs on a session that is headed
\* or not chromium, the page it calls pdf() on belongs to a browser launched
\* as chromium with headless = true, and the stored configuration is then
\* (chromium, headless).
PdfOnHeadlessChromium ==
    \A t \in Tasks :
        (PdfInvoked(t) /\ (task[t].pre.browser_type # "chromium" \/ ~task[t].pre.headless)) =>
            /\ BrowserOfPage(task[t].pg).browser_type = "chromium"
            /\ BrowserOfPage(task[t].pg).headless
            /\ sess.browser_type = "chromium"
            /\ sess.headless

\* C10 as claimed: a Browser-Save-As-PDF on an acquired session whose
\* configuration differs from the PDF requirement performs one close() and
\* then one full construction; on a session already at the configuration a
\* reconfiguration produces it performs no close().
ReconfigureTeardownCount ==
    \A t \in Tasks :
        (task[t].act = "browser_save_as_pdf" /\ task[t].eb = "returned") =>
            /\ (Full(task[t].pre) /\ PdfMustReconfigure(task[t].pre)) =>
                  /\ task[t].ncl = 1
                  /\ Sites(Closed(t) \o Built(t)) =
                        <<"page_close", "context_close", "browser_close", "stop",
                          "start", "launch", "new_context_vp", "new_page_1">>
            /\ ( /\ task[t].pre.browser_type = PdfBrowserType
                 /\ task[t].pre.headless = PdfHeadless ) =>
                  (task[t].ncl = 0 /\ Closed(t) = <<>>)

\* C11 (validation precedes acquisition): a call with an invalid argument
\* returns the handler's validation failure without calling ensure_browser()
\* or close(): it issues no engine call at all, so no engine start, browser
\* launch, context or page creation occurs, and every session field is the
\* same as before the call.
ValidationPrecedesAcquisition ==
    \A t \in Tasks :
        (Done(t) /\ task[t].arg # "valid") =>
            /\ task[t].result =
                  [kind |-> "failure", why |-> "validation",
                   msg |-> ValidationMsg(task[t].act, task[t].arg)]
            /\ task[t].eb = "none"
            /\ task[t].ncl = 0
            /\ task[t].ops = <<>>
            /\ sess = task[t].pre

ValidationPrecedesAcquisitionWitness ==
    \E t \in Tasks :
        /\ Done(t) /\ task[t].act = "browser_fill" /\ task[t].arg = "bad_text"
        /\ Empty(task[t].pre)
        /\ engines = <<>>

\* The order in which close() tests and closes the session's references.
CloseOrder == <<"page_close", "context_close", "browser_close", "stop">>

\* The close/stop calls a close() entered on session s has to make.
Due(s) == SelectSeq(CloseOrder, LAMBDA k : CloseTarget(s, k) # None)

\* The close/stop calls an invocation has issued so far, the pending one included.
Issued(t) ==
    Sites(Closed(t)) \o (IF task[t].pc = "close" THEN <<task[t].wait.site>> ELSE <<>>)

\* C12 (release order): every execution of close() issues its close/stop
\* calls in the order page, context, browser, engine, leaving out exactly
\* the references that were absent on entry; while a close/stop call is
\* awaited its own reference is still present and every reference earlier
\* in the order is absent, so nothing is closed while something it owns is
\* in the session; a reference is cleared once its close has returned.
ReleaseOrder ==
    \A t \in Tasks :
        task[t].ncl >= 1 =>
            /\ Len(Issued(t)) <= Len(Due(task[t].pre))
            /\ Issued(t) = SubSeq(Due(task[t].pre), 1, Len(Issued(t)))
            /\ (task[t].pc # "close" /\ AllOk(Closed(t))) => Issued(t) = Due(task[t].pre)
            /\ task[t].pc = "close" =>
                  /\ task[t].wait.on # None
                  /\ task[t].wait.on = CloseTarget(sess, task[t].wait.site)
                  /\ \A i, j \in 1..Len(CloseOrder) :
                        (i < j /\ CloseOrder[j] = task[t].wait.site) =>
                            CloseTarget(sess, CloseOrder[i]) = None
            /\ task[t].eb = "none" =>
                  \A i \in 1..Len(Closed(t)) :
                      Closed(t)[i].ok => CloseTarget(sess, Closed(t)[i].site) = None

ReleaseOrderWitness ==
    \E t \in Tasks :
        /\ Done(t) /\ task[t].act = "browser_close"
        /\ Full(task[t].pre)
        /\ Closed(t) = [i \in 1..4 |-> [site |-> CloseOrder[i], ok |-> TRUE]]
        /\ Empty(sess)

\* The page-capability calls an invocation has made, in order.
IsPageOp(o) == ~IsConstruction(o) /\ ~IsClose(o)
PageOps(t) == SelectSeq(task[t].ops, IsPageOp)

\* The selector of the invocation matches no element, and no existence
\* query of the invocation has failed in the engine.
NoMatch(t) ==
    /\ Done(t)
    /\ Targets(task[t].act, task[t].sel)
    /\ task[t].arg = "valid"
    /\ ~task[t].hit
    /\ task[t].eb = "returned"
    /\ \A i \in 1..Len(PageOps(t)) :
          PageOps(t)[i].site = "query_selector" => PageOps(t)[i].ok

\* C13 as claimed: an element-targeting action whose selector matches no
\* element makes no call other than the existence query, returns its 'not
\* found' failure, and that result differs from the one the action returns
\* when the engine operation fails or times out.
NotFoundPrecedesEffect ==
    \A t \in Tasks :
        NoMatch(t) =>
            /\ \A i \in 1..Len(PageOps(t)) : PageOps(t)[i].site = "query_selector"
            /\ task[t].result =
                  [kind |-> "failure", why |-> "not_found", msg |-> NotFoundMsg(task[t].act)]
            /\ task[t].result.msg # ErrMsg(task[t].act)

\* The invocation has ended in a validation failure, a not-found failure
\* or the failure of a page-capability call.
FailedSoftly(t) ==
    /\ Done(t)
    /\ \/ task[t].result.why \in {"validation", "not_found"}
       \/ /\ task[t].ops # <<>>
          /\ IsPageOp(task[t].ops[Len(task[t].ops)])
          /\ ~task[t].ops[Len(task[t].ops)].ok

\* After such a failure the session is as ensure_browser() returned it (as
\* it was before the call, for a validation failure).
FailureFrame ==
    \A t \in Tasks :
        FailedSoftly(t) =>
            sess = (IF task[t].result.why = "validation" THEN task[t].pre ELSE task[t].acq)

\* C14 as claimed: a failed action leaves every session field as it was,
\* and the ensure_browser() of the action that follows it returns the page
\* the session held, with no construction step.
FailedActionLeavesSession ==
    /\ FailureFrame
    /\ \A t \in Tasks :
          (task[t].afterSoft /\ task[t].eb = "returned") =>
              (task[t].pg = task[t].pre.page /\ Built(t) = <<>>)

\* C14 (amended): a failed action leaves every session field as it was;
\* when the session then holds a page and the action that follows does not
\* tear the session down first, that action's ensure_browser() returns the
\* same page with no construction step and the same engine handle, browser
\* and context.
FailedActionLeavesSessionUsable ==
    /\ FailureFrame
    /\ \A t \in Tasks :
          ( /\ task[t].afterSoft /\ task[t].eb = "returned"
            /\ task[t].pre.page # None /\ task[t].ncl = 0 ) =>
              /\ task[t].pg = task[t].pre.page
              /\ Built(t) = <<>>
              /\ task[t].acq = task[t].pre

FailedActionLeavesSessionWitness ==
    \E t \in Tasks :
        /\ FailedSoftly(t)
        /\ task[t].result.why = "engine"
        /\ task[t].afterSoft
        /\ task[t].pre.page # None
        /\ task[t].pg = task[t].pre.page

\* C15 (singleton discipline): every construction of PlaywrightManager after
\* the first, whatever its arguments, returns the one instance and leaves
\* its stored configuration and its engine handle, browser, context and
\* page as they were; __new__ allocates one object in the whole run.
SingletonDiscipline ==
    /\ [](cls.objects = 1 /\ cls.instance = 1 /\ cls.initialized)
    /\ [][cls'.made # cls.made => (sess' = sess /\ cls'.instance = cls.instance)]_vars

SingletonDisciplineWitness ==
    /\ cls.made = MaxConstructions
    /\ cls.built
    /\ Full(sess)

\* C16 as claimed: among ensure_browser() calls that overlap on a session
\* that started empty, with no close(), no reconfiguration and no engine
\* failure, the engine start, the browser launch, the context creation and
\* the page creation are each performed at most once, so every created
\* resource is the one the session refers to, and every call that has
\* returned has returned the same page.
NoDuplicateConstruction ==
    ghost.run.valid =>
        /\ \A k \in DOMAIN OnceEach : ghost.run.made[k] <= 1
        /\ ghost.run.same
        /\ \A t \in Tasks : task[t].eb = "returned" => task[t].pg = ghost.run.page

\* A Browser-Save-As-PDF invocation is between the start of its close() and
\* the return of the ensure_browser() that follows.
Reconfiguring(u) ==
    /\ task[u].act = "browser_save_as_pdf"
    /\ task[u].ncl >= 1
    /\ task[u].pc \in {"close", "ensure_browser"}

\* C17 as claimed: while a Browser-Save-As-PDF invocation is reconfiguring
\* the session, no ensure_browser() of another invocation returns a page
\* (in particular not the page the reconfiguration is closing).
ReconfigurationExcludesAcquire ==
    [][ \A u, t \in Tasks :
          (u # t /\ Reconfiguring(u) /\ task[t].eb # "returned")
              => task'[t].eb # "returned" ]_vars

\* C18 as claimed: with no engine failure in any construction or teardown
\* call, an ensure_browser() returns only with engine handle, browser and
\* context present, and whenever no ensure_browser() and no close() is in
\* progress the session is entirely absent or entirely present.
PartialNeverReady ==
    ~ghost.faults =>
        /\ \A t \in Tasks :
              task[t].eb = "returned" =>
                  /\ task[t].acq.playwright # None
                  /\ task[t].acq.browser # None
                  /\ task[t].acq.context # None
        /\ (\A t \in Tasks : task[t].pc \notin {"ensure_browser", "close"}) =>
              (Empty(sess) \/ Full(sess))

FullConstruction == <<"start", "launch", "new_context_vp", "new_page_1">>

GotoIssued(t) ==
    \/ (task[t].pc = "handler" /\ task[t].wait.site = "goto")
    \/ \E i \in 1..Len(task[t].ops) : task[t].ops[i].site = "goto"

\* C19 (construction order and navigation): an ensure_browser() entered on
\* an empty session performs engine start, browser launch, context creation
\* and page creation, once each and in that order, and returns with the
\* session referring to the four resources it has just created, each made
\* from the one before; Browser-Navigate issues goto only once
\* ensure_browser() has returned a fully built session, after every
\* construction call, and when goto and wait_for_load_state both succeed
\* it returns 'Navigated to <url>'.
ConstructionOrder ==
    \A t \in Tasks :
        /\ (task[t].eb = "returned" /\ Empty(task[t].entry)) =>
              /\ Sites(Built(t)) = FullConstruction
              /\ AllOk(Built(t))
              /\ Refs(task[t].acq) = <<Len(engines), Len(browsers), Len(contexts), Len(pages)>>
              /\ Attached(task[t].acq)
        /\ (task[t].eb # "none" /\ task[t].eb # "returned" /\ Empty(task[t].entry)) =>
              /\ Len(Built(t)) <= Len(FullConstruction)
              /\ Sites(Built(t)) = SubSeq(FullConstruction, 1, Len(Built(t)))
        /\ (task[t].act = "browser_navigate" /\ GotoIssued(t)) =>
              /\ task[t].eb = "returned"
              /\ Full(task[t].acq)
              /\ \A i, j \in 1..Len(task[t].ops) :
                    (task[t].ops[i].site = "goto" /\ IsConstruction(task[t].ops[j])) => j < i
        /\ ( /\ Done(t) /\ task[t].act = "browser_navigate"
             /\ Sites(PageOps(t)) = <<"goto", "wait_for_load_state">>
             /\ AllOk(PageOps(t)) ) =>
              task[t].result = [kind |-> "ok", why |-> "none", msg |-> "Navigated to "]

ConstructionOrderWitness ==
    \E t \in Tasks :
        /\ Done(t) /\ task[t].act = "browser_navigate"
        /\ Empty(task[t].entry)
        /\ task[t].afterClose
        /\ Len(engines) = 2
        /\ task[t].result.kind = "ok"

\* C20 as claimed: every browsing context ensure_browser() has created,
\* whichever of its two context-creating calls made it, was opened with the
\* configured viewport width and height.
ViewportOnEveryContext ==
    \A x \in DOMAIN contexts :
        contexts[x].viewport = <<sess.viewport_width, sess.viewport_height>>

\* The stored configuration of a session.
Config(s) == <<s.browser_type, s.headless, s.viewport_width, s.viewport_height>>

\* C21 (configuration immutable per live session): no handler other than
\* browser_save_as_pdf assigns the stored configuration; browser_save_as_pdf
\* assigns it only once its close() has returned, with page, context,
\* browser and engine handle all absent, and not at all when its close()
\* raises; so whenever the session holds a browser, that browser was
\* launched with the stored browser type and headless flag.
ConfigFixedWhileLive ==
    /\ \A t \in Tasks :
          /\ (task[t].pc # "idle" /\ task[t].act # "browser_save_as_pdf") =>
                Config(sess) = Config(task[t].pre)
          /\ ( /\ task[t].act = "browser_save_as_pdf"
               /\ PdfMustReconfigure(task[t].pre) ) =>
                /\ task[t].eb = "none" => Config(sess) = Config(task[t].pre)
                /\ task[t].eb # "none" =>
                      /\ Empty(task[t].entry)
                      /\ AllOk(Closed(t))
                      /\ Sites(Closed(t)) = Due(task[t].pre)
    /\ sess.browser # None =>
          /\ browsers[sess.browser].browser_type = sess.browser_type
          /\ browsers[sess.browser].headless = sess.headless

ConfigFixedWhileLiveWitness ==
    \E t \in Tasks :
        /\ Done(t) /\ task[t].act = "browser_save_as_pdf"
        /\ Full(task[t].pre)
        /\ task[t].ncl = 1
        /\ task[t].eb = "returned"
        /\ sess.browser = 2

\* Every reference that s holds, r holds too, unchanged.
Keeps(s, r) ==
    \A i \in 1..Len(Refs(s)) : Refs(s)[i] # None => Refs(r)[i] = Refs(s)[i]

\* C22 (the session persists across calls): during and after every action
\* other than Browser-Close and Browser-Save-As-PDF, whatever its result,
\* each of page, context, browser and engine handle that the session held
\* before the action is still held and is the same one; a session field is
\* cleared only in the course of a Browser-Close or a Browser-Save-As-PDF.
SessionPersists ==
    /\ \A t \in Tasks :
          (task[t].pc # "idle" /\ task[t].act \notin {"browser_close", "browser_save_as_pdf"})
              => Keeps(task[t].pre, sess)
    /\ \A t \in Tasks :
          (task[t].pc # "idle" /\ ~Keeps(task[t].pre, sess))
              => (task[t].ncl >= 1 /\ Closed(t) # <<>>)

SessionPersistsWitness ==
    \E t \in Tasks :
        /\ Done(t) /\ task[t].act = "browser_reload"
        /\ task[t].result.kind = "raised"
        /\ task[t].pre.playwright # None /\ task[t].pre.browser # None
        /\ task[t].pre.context = None
        /\ Full(sess)

InFlight(t) == task[t].pc \notin {"idle", "done"}

\* C23 (every action runs to completion): when every awaited engine call
\* eventually returns or raises and the event loop resumes the task, every
\* dispatched handler invocation eventually ends, with a result, a failure
\* or an exception, whatever other invocations (Browser-Close and
\* Browser-Save-As-PDF among them) run interleaved with it.
RunsToCompletion ==
    \A t \in Tasks : InFlight(t) ~> Done(t)

RunsToCompletionWitness ==
    \E t, u \in Tasks :
        /\ task[t].act = "browser_close" /\ task[t].pc = "close"
        /\ task[u].act = "browser_save_as_pdf" /\ task[u].pc = "ensure_browser"
        /\ task[u].ncl = 1
        /\ task[t].wait.on = task[u].wait.on

\* C24 (ownership chain): in every state, between and inside operations and
\* after any failed construction or close step, a session that holds a page
\* holds a context, one that holds a context holds a browser, and one that
\* holds a browser holds an engine handle.
OwnershipChain ==
    /\ sess.page # None => sess.context # None
    /\ sess.context # None => sess.browser # None
    /\ sess.browser # None => sess.playwright # None

OwnershipChainWitness ==
    /\ ghost.faults
    /\ \E t \in Tasks : task[t].pc = "close" /\ task[t].wait.site = "browser_close"
    /\ sess.page = None /\ sess.context = None
    /\ sess.browser # None
    /\ Len(engines) >= 2

\* The configuration pw_manager is constructed with.
DefaultConfig == <<"chromium", FALSE, 1200, 900>>

\* C25 (post-reconfigure configuration is the steady state): in every
\* reachable state, before, during and after any Browser-Save-As-PDF and any
\* action that follows it, the stored configuration is chromium, headless =
\* false, 1200x900, and every browser launched so far was launched as
\* chromium with headless = false.
ConfigSteadyState ==
    /\ Config(sess) = DefaultConfig
    /\ \A b \in DOMAIN browsers :
          browsers[b].browser_type = "chromium" /\ ~browsers[b].headless

ConfigSteadyStateWitness ==
    \E t \in Tasks :
        /\ Done(t) /\ task[t].act = "browser_navigate"
        /\ task[t].result.kind = "ok"
        /\ ~task[t].afterClose
        /\ Built(t) = <<>>
        /\ Len(browsers) = 2
        /\ calls = 3

====
